---- MODULE Spec2Model ----
(***************************************************************************)
(* Model of pyqtdeploy_start() and append_strings() from                   *)
(* pyqtdeploy/builder/lib/pyqtdeploy_start.c.                              *)
(*                                                                         *)
(* The function is one sequential routine.  The three builds selected by   *)
(* the preprocessor are modelled by the variable `variant':                *)
(*   "py2"     PY_MAJOR_VERSION < 3            (byte-based arguments)      *)
(*   "py3"     PY_MAJOR_VERSION >= 3, !ANDROID (mbstowcs under a locale)   *)
(*   "android" PY_MAJOR_VERSION >= 3, ANDROID  (per-byte PEP 383 loop)     *)
(* `pc' is the position in the function.  Every call into the Python       *)
(* runtime or libc whose result the code tests is an action whose result   *)
(* is drawn from the results the call can return.                          *)
(***************************************************************************)
EXTENDS Integers, Sequences, FiniteSets, TLC

\* ------------------------------------------------------------------ bounds
MaxArgc == 3
MaxPath == 2

\* ------------------------------------------------------- program constants
\* `ch <= 0x7f'
AsciiMax == 127
\* `0xdc00 + ch'
SurrogateBase == 56320
\* number of values of a char
CharRange == 256

\* BOOTSTRAP_MODULE, per variant
BOOTSTRAP_MODULE(v) == IF v = "py2" THEN "__bootstrap__" ELSE "_frozen_importlib"

\* static struct _frozen modules[] (names; the sentinel ends the table)
modules(v) == <<BOOTSTRAP_MODULE(v), "__main__">>

\* static const char *minimal_path[]
minimal_path == <<":/", ":/stdlib", ":/site-packages">>

\* ------------------------------------------------------------------ inputs
Variants == {"py2", "py3", "android"}
Locales == {"C", "UTF-8"}

\* The py_main and py_main_filename arguments.
PyMain == <<47, 112>>
PyMainFilename == "main.py"

\* Host arguments (NUL-terminated byte strings, given without the NUL).
ArgSamples == {<<>>, <<65, 127>>, <<128, 255>>, <<195, 169>>}
Argv0Samples == {<<97>>, <<255, 47>>}

\* Caller-supplied path fragments.
PathStrings == {":/", "/extra/one"}

RECURSIVE SeqsUpTo(_, _)
SeqsUpTo(S, n) ==
    IF n = 0 THEN {<<>>}
    ELSE LET shorter == SeqsUpTo(S, n - 1)
         IN shorter \cup {Append(s, x) : s \in {t \in shorter : Len(t) = n - 1}, x \in S}

\* ------------------------------------------------------------- conversions
\* The value of `char ch' holding byte b: implementation-defined signedness.
CharValue(b, isSigned) == IF isSigned /\ b > AsciiMax THEN b - CharRange ELSE b

\* The body of the ANDROID while loop for one char.
Pep383(ch) == IF ch <= AsciiMax THEN ch ELSE SurrogateBase + ch

RECURSIVE AndroidConvert(_, _)
AndroidConvert(arg, isSigned) ==
    IF arg = <<>> THEN <<>>
    ELSE <<Pep383(CharValue(Head(arg), isSigned))>> \o AndroidConvert(Tail(arg), isSigned)

\* strlen(arg)
strlen(arg) == Len(arg)

\* mbstowcs() under locale loc: "C" accepts only 7-bit bytes, "UTF-8" also
\* decodes two-byte sequences.  ok = FALSE is the (size_t)-1 result.
RECURSIVE mbstowcs(_, _)
mbstowcs(arg, loc) ==
    IF arg = <<>> THEN [ok |-> TRUE, w |-> <<>>]
    ELSE LET b == Head(arg) IN
         IF b <= AsciiMax
         THEN LET r == mbstowcs(Tail(arg), loc)
              IN [ok |-> r.ok, w |-> <<b>> \o r.w]
         ELSE IF loc = "UTF-8" /\ b \in 194..223 /\ Len(arg) >= 2 /\ arg[2] \in 128..191
         THEN LET r == mbstowcs(SubSeq(arg, 3, Len(arg)), loc)
              IN [ok |-> r.ok, w |-> <<(b - 192) * 64 + (arg[2] - 128)>> \o r.w]
         ELSE [ok |-> FALSE, w |-> <<>>]

\* ---------------------------------------------------------- append_strings
\* Variant of append_strings that skips a value the list already holds.
RECURSIVE Dedup(_, _)
Dedup(list, values) ==
    IF values = <<>> THEN list
    ELSE IF \E k \in 1..Len(list) : list[k] = Head(values)
         THEN Dedup(list, Tail(values))
         ELSE Dedup(Append(list, Head(values)), Tail(values))

append_strings_dedup(list, values, failAt) ==
    LET n == IF failAt = 0 THEN Len(values) ELSE failAt - 1
    IN [rc |-> IF failAt = 0 THEN 0 ELSE -1,
        list |-> Dedup(list, SubSeq(values, 1, n))]

append_strings(list, values, failAt) ==
    LET n == IF failAt = 0 THEN Len(values) ELSE failAt - 1
    IN [rc |-> IF failAt = 0 THEN 0 ELSE -1,
        list |-> list \o SubSeq(values, 1, n)]

\* ------------------------------------------------------------------- state
VARIABLES
    variant, charSigned, env_locale,
    argc, argv, extension_modules, path,
    pc, i, w_argv, saved_locale, locale_buf, locale, py_path, ret,
    Py_FrozenFlag, Py_NoSiteFlag, PyImport_FrozenModules, inittab,
    program_name, runtime, sys_argv, sys_path, main_file, main_rc,
    stderr, calls, examined, signalled, entry_locale

config == <<variant, charSigned, env_locale, argc, extension_modules, path, entry_locale>>
locals == <<i, w_argv, saved_locale, locale_buf, locale, py_path>>
rtvars == <<Py_FrozenFlag, Py_NoSiteFlag, PyImport_FrozenModules, inittab,
            program_name, runtime, sys_argv, sys_path, main_file, main_rc>>
vars == <<config, argv, pc, locals, ret, rtvars, stderr, calls, examined, signalled>>

\* An unassigned slot of the w_argv pointer buffer.
NoSlot == [assigned |-> FALSE, size |-> 0, data |-> <<>>]
\* A slot pointing at a buffer of `size' units whose first Len(data) units
\* have been written; the remaining units are uninitialised.
Slot(size, data) == [assigned |-> TRUE, size |-> size, data |-> data]

Init ==
    /\ variant \in Variants
    /\ charSigned \in (IF variant = "android" THEN BOOLEAN ELSE {FALSE})
    /\ env_locale \in (IF variant = "py3" THEN Locales ELSE {"C"})
    /\ entry_locale \in (IF variant = "py3" THEN Locales ELSE {"C"})
    /\ argc \in 1..MaxArgc
    /\ argv \in [0..(argc - 1) -> ArgSamples \cup Argv0Samples]
    /\ argv[0] \in Argv0Samples
    /\ \A k \in 1..(argc - 1) : argv[k] \in ArgSamples
    /\ extension_modules \in {"NULL", "table"}
    /\ path \in {[null |-> TRUE, items |-> <<>>]}
                \cup {[null |-> FALSE, items |-> s] : s \in SeqsUpTo(PathStrings, MaxPath)}
    /\ pc = "start"
    /\ i = 0
    /\ w_argv = <<>>
    /\ saved_locale = FALSE
    /\ locale = entry_locale
    /\ locale_buf = entry_locale
    /\ py_path = <<>>
    /\ ret = -1
    /\ Py_FrozenFlag = 0
    /\ Py_NoSiteFlag = 0
    /\ PyImport_FrozenModules = <<>>
    /\ inittab = <<>>
    /\ program_name = <<>>
    /\ runtime = "uninitialized"
    /\ sys_argv = <<>>
    /\ sys_path = [set |-> FALSE, items |-> <<>>]
    /\ main_file = ""
    /\ main_rc = -2
    /\ stderr = <<>>
    /\ calls = <<>>
    /\ examined = {}
    /\ signalled = {}


\* ----------------------------------------------------------------- helpers
\* The tests `< 0' / `== NULL' the code applies to a call's result.
\* Variant of the test that lets -1 through.
IsFailure_Lax(rc) == rc < -1

IsFailure(rc) == rc < 0

\* Variant of the message that does not carry the argument's index.
Diagnostic_NoIndex(msg, idx) == [kind |-> "fprintf", msg |-> msg, idx |-> 0]

\* fprintf(stderr, ...) followed by `return 1'.
Diagnostic(msg, idx) == [kind |-> "fprintf", msg |-> msg, idx |-> idx]

\* Variant of FailReturn that returns 1 without writing to stderr.
FailReturn_Silent(msg, idx) ==
    /\ stderr' = stderr
    /\ ret' = 1
    /\ pc' = "done"

FailReturn(msg, idx) ==
    /\ stderr' = Append(stderr, Diagnostic(msg, idx))
    /\ ret' = 1
    /\ pc' = "done"

\* Variant of the error exit that reports on stderr instead of through the
\* runtime.
GotoPyError_Fprintf ==
    /\ stderr' = Append(stderr, Diagnostic("failed", 0))
    /\ ret' = 1
    /\ pc' = "done"

\* `goto py_error'
GotoPyError ==
    /\ pc' = "py_error"
    /\ UNCHANGED <<stderr, ret>>

Continue(next) ==
    /\ pc' = next
    /\ UNCHANGED <<stderr, ret>>

Called(name) == calls' = Append(calls, name)

\* Record that the call of `step' reported failure to the function.
Signal(step, bad) == signalled' = IF bad THEN signalled \cup {step} ELSE signalled

\* Where the `for (i = 1; i < argc; i++)' loop goes when its counter is j.
LoopNext(j) ==
    IF j < argc THEN "ConvLoop"
    ELSE IF variant = "py3" THEN "RestoreLocale" ELSE "SetProgramName"

\* -------------------------------------------------- registration (82-103)
Start ==
    /\ pc = "start"
    /\ UNCHANGED signalled
    /\ Py_FrozenFlag' = 1
    /\ Py_NoSiteFlag' = 1
    /\ PyImport_FrozenModules' = modules(variant)
    /\ calls' = calls \o <<"SetFlags", "SetFrozenModules">>
    /\ Continue("AppendInittab")
    /\ UNCHANGED <<config, argv, locals, inittab, program_name, runtime, sys_argv,
                   sys_path, main_file, main_rc, examined>>

AppendInittab(rc) ==
    /\ pc = "AppendInittab"
    /\ Signal("PyImport_AppendInittab", rc < 0)
    /\ Called("PyImport_AppendInittab")
    /\ IF IsFailure(rc)
       THEN /\ FailReturn("PyImport_AppendInittab() failed", 0)
            /\ UNCHANGED inittab
       ELSE /\ inittab' = Append(inittab, "pyqtdeploy")
            /\ Continue("ExtendInittab")
    /\ UNCHANGED <<config, argv, locals, Py_FrozenFlag, Py_NoSiteFlag,
                   PyImport_FrozenModules, program_name, runtime, sys_argv,
                   sys_path, main_file, main_rc, examined>>

\* Where the function goes after the extension modules.
AfterInittab == IF variant = "py2" THEN "Argv0" ELSE "MallocArgv"

\* Variant of ExtendInittab that treats a NULL table as a failure.
ExtendInittab_NullFails(rc) ==
    /\ pc = "ExtendInittab"
    /\ Signal("PyImport_ExtendInittab", rc < 0 /\ extension_modules /= "NULL")
    /\ Called("PyImport_ExtendInittab")
    /\ IF extension_modules = "NULL" \/ IsFailure(rc)
       THEN /\ FailReturn("PyImport_ExtendInittab() failed", 0)
            /\ UNCHANGED inittab
       ELSE /\ inittab' = Append(inittab, "extension_modules")
            /\ Continue(AfterInittab)
    /\ UNCHANGED <<config, argv, locals, Py_FrozenFlag, Py_NoSiteFlag,
                   PyImport_FrozenModules, program_name, runtime, sys_argv,
                   sys_path, main_file, main_rc, examined>>

ExtendInittab(rc) ==
    /\ pc = "ExtendInittab"
    /\ Signal("PyImport_ExtendInittab", rc < 0)
    /\ IF extension_modules /= "NULL"
       THEN /\ Called("PyImport_ExtendInittab")
            /\ IF IsFailure(rc)
               THEN /\ FailReturn("PyImport_ExtendInittab() failed", 0)
                    /\ UNCHANGED inittab
               ELSE /\ inittab' = Append(inittab, "extension_modules")
                    /\ Continue(AfterInittab)
       ELSE /\ rc = 0
            /\ Continue(AfterInittab)
            /\ UNCHANGED <<inittab, calls>>
    /\ UNCHANGED <<config, argv, locals, Py_FrozenFlag, Py_NoSiteFlag,
                   PyImport_FrozenModules, program_name, runtime, sys_argv,
                   sys_path, main_file, main_rc, examined>>

\* ------------------------------------------- argument conversion (105-168)
MallocArgv(ok) ==
    /\ pc = "MallocArgv"
    /\ Signal("PyMem_Malloc(w_argv)", ~ok)
    /\ variant /= "py2"
    /\ Called("PyMem_Malloc")
    /\ IF ~ok
       THEN /\ FailReturn("PyMem_Malloc() failed", 0)
            /\ UNCHANGED <<i, w_argv>>
       ELSE /\ w_argv' = [k \in 0..(argc - 1) |->
                            IF k = 0 THEN Slot(Len(PyMain) + 1, PyMain \o <<0>>) ELSE NoSlot]
            /\ IF variant = "py3"
               THEN Continue("SaveLocale") /\ UNCHANGED i
               ELSE Continue(LoopNext(1)) /\ i' = 1
    /\ UNCHANGED <<config, argv, saved_locale, locale_buf, locale, py_path,
                   rtvars, examined>>

\* Variant of the allocation that leaves no room for the terminator.
BufferUnits_Short(len) == len

\* The units PyMem_Malloc((len + 1) * sizeof (wchar_t)) allocates.
BufferUnits(len) == len + 1

\* saved_locale = setlocale(LC_ALL, NULL); setlocale(LC_ALL, "");
\* saved_locale points at storage of the C library that the second call may
\* overwrite: afterwards it holds the old or the new locale name.
SaveLocale(overwritten) ==
    /\ pc = "SaveLocale"
    /\ UNCHANGED signalled
    /\ saved_locale' = TRUE
    /\ locale' = env_locale
    /\ locale_buf' = IF overwritten THEN env_locale ELSE locale
    /\ Called("setlocale(default)")
    /\ i' = 1
    /\ Continue(LoopNext(1))
    /\ UNCHANGED <<config, argv, w_argv, py_path, rtvars, examined>>

\* One iteration of the loop, !ANDROID.
ConvertArgLocale(ok) ==
    /\ pc = "ConvLoop"
    /\ variant = "py3"
    /\ i < argc
    /\ examined' = examined \cup {i}
    /\ LET arg == argv[i]
           r == mbstowcs(arg, locale)
           len == Len(r.w)
       IN /\ signalled' = signalled \cup (IF ~r.ok THEN {"mbstowcs"}
                                          ELSE IF ~ok THEN {"PyMem_Malloc(w_arg)"}
                                          ELSE {})
          /\ IF ~r.ok
             THEN /\ FailReturn("Could not convert argument %d to string", i)
                  /\ UNCHANGED <<i, w_argv, calls>>
             ELSE /\ Called("PyMem_Malloc")
                  /\ IF ~ok
                     THEN /\ FailReturn("PyMem_Malloc() failed", 0)
                          /\ UNCHANGED <<i, w_argv>>
                     ELSE LET r2 == mbstowcs(arg, locale) IN
                          IF ~r2.ok
                          THEN /\ w_argv' = [w_argv EXCEPT ![i] = Slot(BufferUnits(len), <<>>)]
                               /\ FailReturn("Could not convert argument %d to string", i)
                               /\ UNCHANGED i
                          ELSE /\ w_argv' = [w_argv EXCEPT ![i] =
                                               Slot(BufferUnits(len), SubSeq(r2.w \o <<0>>, 1, len + 1))]
                               /\ i' = i + 1
                               /\ Continue(LoopNext(i + 1))
    /\ UNCHANGED <<config, argv, saved_locale, locale_buf, locale, py_path, rtvars>>

\* Variant of the ANDROID iteration that does not test the allocation.
ConvertArgAndroid_NoCheck(ok) ==
    /\ pc = "ConvLoop"
    /\ variant = "android"
    /\ i < argc
    /\ examined' = examined \cup {i}
    /\ Called("PyMem_Malloc")
    /\ Signal("PyMem_Malloc(w_arg)", ~ok)
    /\ w_argv' = [w_argv EXCEPT ![i] =
                    Slot(BufferUnits(strlen(argv[i])), AndroidConvert(argv[i], charSigned))]
    /\ i' = i + 1
    /\ Continue(LoopNext(i + 1))
    /\ UNCHANGED <<config, argv, saved_locale, locale_buf, locale, py_path, rtvars>>

\* One iteration of the loop, ANDROID.
ConvertArgAndroid(ok) ==
    /\ pc = "ConvLoop"
    /\ variant = "android"
    /\ i < argc
    /\ examined' = examined \cup {i}
    /\ Called("PyMem_Malloc")
    /\ Signal("PyMem_Malloc(w_arg)", ~ok)
    /\ LET arg == argv[i]
           len == strlen(arg)
       IN IF ~ok
          THEN /\ FailReturn("PyMem_Malloc() failed", 0)
               /\ UNCHANGED <<i, w_argv>>
          ELSE /\ w_argv' = [w_argv EXCEPT ![i] =
                               Slot(BufferUnits(len), AndroidConvert(arg, charSigned))]
               /\ i' = i + 1
               /\ Continue(LoopNext(i + 1))
    /\ UNCHANGED <<config, argv, saved_locale, locale_buf, locale, py_path, rtvars>>

\* setlocale(LC_ALL, saved_locale);
RestoreLocale ==
    /\ pc = "RestoreLocale"
    /\ UNCHANGED signalled
    /\ locale' = locale_buf
    /\ Called("setlocale(saved_locale)")
    /\ Continue("SetProgramName")
    /\ UNCHANGED <<config, argv, i, w_argv, saved_locale, locale_buf, py_path,
                   rtvars, examined>>

\* ------------------------------------------- runtime start-up (170-185)
\* argv[0] = py_main;  (byte-based variant)
Argv0 ==
    /\ pc = "Argv0"
    /\ UNCHANGED signalled
    /\ variant = "py2"
    /\ argv' = [argv EXCEPT ![0] = PyMain]
    /\ Continue("SetProgramName")
    /\ UNCHANGED <<config, locals, rtvars, calls, examined>>

\* The string the runtime reads at a wchar_t pointer: the units before the
\* first 0.  A buffer holding no 0 is read past its written units; the unit
\* found there is 0 (zero = TRUE) or anything else.
Garbage == <<63>>

RECURSIVE UpToNul(_)
UpToNul(data) ==
    IF data = <<>> \/ Head(data) = 0 THEN <<>>
    ELSE <<Head(data)>> \o UpToNul(Tail(data))

ReadWide(slot, zero) ==
    IF \E k \in 1..Len(slot.data) : slot.data[k] = 0 THEN UpToNul(slot.data)
    ELSE IF zero THEN slot.data
    ELSE slot.data \o Garbage

\* The argument strings handed to Py_SetProgramName / PySys_SetArgv, as the
\* runtime reads them (entry k + 1 is argument k).
NativeArgv(zero) ==
    IF variant = "py2" THEN [k \in 1..argc |-> argv[k - 1]]
    ELSE [k \in 1..argc |-> ReadWide(w_argv[k - 1], zero)]

\* Variant of the start-up that leaves the program name unset.
SetProgramName_Skip ==
    /\ pc = "SetProgramName"
    /\ UNCHANGED <<signalled, calls, program_name>>
    /\ Continue("Initialize")
    /\ UNCHANGED <<config, argv, locals, Py_FrozenFlag, Py_NoSiteFlag,
                   PyImport_FrozenModules, inittab, runtime, sys_argv, sys_path,
                   main_file, main_rc, examined>>

SetProgramName ==
    /\ pc = "SetProgramName"
    /\ UNCHANGED signalled
    /\ program_name' = NativeArgv(TRUE)[1]
    /\ Called("Py_SetProgramName")
    /\ Continue("Initialize")
    /\ UNCHANGED <<config, argv, locals, Py_FrozenFlag, Py_NoSiteFlag,
                   PyImport_FrozenModules, inittab, runtime, sys_argv, sys_path,
                   main_file, main_rc, examined>>

Initialize ==
    /\ pc = "Initialize"
    /\ UNCHANGED signalled
    /\ runtime' = "initialized"
    /\ Called("Py_Initialize")
    /\ Continue("SetArgv")
    /\ UNCHANGED <<config, argv, locals, Py_FrozenFlag, Py_NoSiteFlag,
                   PyImport_FrozenModules, inittab, program_name, sys_argv,
                   sys_path, main_file, main_rc, examined>>

\* Variant in which no build imports the bootstrap module.
AfterSetArgv_NoBootstrap == "ListNew"

\* Where the function goes after PySys_SetArgv.
AfterSetArgv == IF variant = "py2" THEN "ImportBootstrap" ELSE "ListNew"

SetArgv(zero) ==
    /\ pc = "SetArgv"
    /\ UNCHANGED signalled
    /\ sys_argv' = NativeArgv(zero)
    /\ Called("PySys_SetArgv")
    /\ Continue(AfterSetArgv)
    /\ UNCHANGED <<config, argv, locals, Py_FrozenFlag, Py_NoSiteFlag,
                   PyImport_FrozenModules, inittab, program_name, runtime,
                   sys_path, main_file, main_rc, examined>>

\* The results of PyImport_ImportFrozenModule(): 1 imported, 0 no frozen
\* module of that name, -1 the import raised.
ImportResults == {1, 0, -1}

\* PyImport_ImportFrozenModule(BOOTSTRAP_MODULE)  (byte-based variant)
ImportBootstrap(rc) ==
    /\ pc = "ImportBootstrap"
    /\ Signal("ImportBootstrap", rc < 0)
    /\ variant = "py2"
    /\ Called("PyImport_ImportFrozenModule(BOOTSTRAP_MODULE)")
    /\ IF IsFailure(rc) THEN GotoPyError ELSE Continue("ListNew")
    /\ UNCHANGED <<config, argv, locals, rtvars, examined>>

\* -------------------------------------------------------- sys.path (187-198)
ListNew(ok) ==
    /\ pc = "ListNew"
    /\ Signal("PyList_New", ~ok)
    /\ Called("PyList_New")
    /\ IF ~ok THEN GotoPyError ELSE Continue("AppendMinimal")
    /\ py_path' = <<>>
    /\ UNCHANGED <<config, argv, i, w_argv, saved_locale, locale_buf, locale,
                   rtvars, examined>>

AppendMinimal(failAt) ==
    /\ pc = "AppendMinimal"
    /\ Signal("append_strings(minimal_path)", failAt /= 0)
    /\ failAt \in 0..Len(minimal_path)
    /\ LET r == append_strings(py_path, minimal_path, failAt)
       IN /\ py_path' = r.list
          /\ IF IsFailure(r.rc) THEN GotoPyError
             ELSE Continue("AppendPath")
    /\ Called("append_strings(minimal_path)")
    /\ UNCHANGED <<config, argv, i, w_argv, saved_locale, locale_buf, locale,
                   rtvars, examined>>

AppendPath(failAt) ==
    /\ pc = "AppendPath"
    /\ Signal("append_strings(path)", failAt /= 0)
    /\ IF path.null
       THEN /\ failAt = 0
            /\ Continue("SetPath")
            /\ UNCHANGED <<py_path, calls>>
       ELSE /\ failAt \in 0..Len(path.items)
            /\ Called("append_strings(path)")
            /\ LET r == append_strings(py_path, path.items, failAt)
               IN /\ py_path' = r.list
                  /\ IF IsFailure(r.rc) THEN GotoPyError
                     ELSE Continue("SetPath")
    /\ UNCHANGED <<config, argv, i, w_argv, saved_locale, locale_buf, locale,
                   rtvars, examined>>

\* Variant of SetPath that does not test the result of PySys_SetObject.
SetPath_Unchecked(rc) ==
    /\ pc = "SetPath"
    /\ Signal("PySys_SetObject", rc < 0)
    /\ Called("PySys_SetObject")
    /\ sys_path' = IF rc < 0 THEN sys_path ELSE [set |-> TRUE, items |-> py_path]
    /\ Continue("AddModule")
    /\ UNCHANGED <<config, argv, locals, Py_FrozenFlag, Py_NoSiteFlag,
                   PyImport_FrozenModules, inittab, program_name, runtime,
                   sys_argv, main_file, main_rc, examined>>

SetPath(rc) ==
    /\ pc = "SetPath"
    /\ Signal("PySys_SetObject", rc < 0)
    /\ Called("PySys_SetObject")
    /\ IF IsFailure(rc)
       THEN GotoPyError /\ UNCHANGED sys_path
       ELSE /\ sys_path' = [set |-> TRUE, items |-> py_path]
            /\ Continue("AddModule")
    /\ UNCHANGED <<config, argv, locals, Py_FrozenFlag, Py_NoSiteFlag,
                   PyImport_FrozenModules, inittab, program_name, runtime,
                   sys_argv, main_file, main_rc, examined>>

\* ------------------------------------------------- __main__ (200-232)
\* PyImport_AddModule("__main__"); PyModule_GetDict(mod);
AddModule(ok) ==
    /\ pc = "AddModule"
    /\ Signal("PyImport_AddModule", ~ok)
    /\ Called("PyImport_AddModule")
    /\ IF ~ok THEN GotoPyError ELSE Continue("FromString")
    /\ UNCHANGED <<config, argv, locals, rtvars, examined>>

\* py_filename = PyUnicode_FromString / PyString_FromString(py_main_filename)
FromString(ok) ==
    /\ pc = "FromString"
    /\ Signal("FromString", ~ok)
    /\ Called("FromString(py_main_filename)")
    /\ IF ~ok THEN GotoPyError ELSE Continue("SetFile")
    /\ UNCHANGED <<config, argv, locals, rtvars, examined>>

\* Variant of SetFile after which the import of __main__ is skipped.
SetFile_SkipImport(rc) ==
    /\ pc = "SetFile"
    /\ Signal("PyDict_SetItemString", rc < 0)
    /\ Called("PyDict_SetItemString")
    /\ IF IsFailure(rc)
       THEN GotoPyError /\ UNCHANGED main_file
       ELSE /\ main_file' = PyMainFilename
            /\ Continue("Finalize")
    /\ UNCHANGED <<config, argv, locals, Py_FrozenFlag, Py_NoSiteFlag,
                   PyImport_FrozenModules, inittab, program_name, runtime,
                   sys_argv, sys_path, main_rc, examined>>

\* PyDict_SetItemString(mod_dict, "__file__", py_filename); Py_DECREF
SetFile(rc) ==
    /\ pc = "SetFile"
    /\ Signal("PyDict_SetItemString", rc < 0)
    /\ Called("PyDict_SetItemString")
    /\ IF IsFailure(rc)
       THEN GotoPyError /\ UNCHANGED main_file
       ELSE /\ main_file' = PyMainFilename
            /\ Continue("ImportMain")
    /\ UNCHANGED <<config, argv, locals, Py_FrozenFlag, Py_NoSiteFlag,
                   PyImport_FrozenModules, inittab, program_name, runtime,
                   sys_argv, sys_path, main_rc, examined>>

\* PyImport_ImportFrozenModule("__main__")
ImportMain(rc) ==
    /\ pc = "ImportMain"
    /\ Signal("ImportMain", rc < 0)
    /\ Called("PyImport_ImportFrozenModule(__main__)")
    /\ main_rc' = rc
    /\ IF IsFailure(rc) THEN GotoPyError ELSE Continue("Finalize")
    /\ UNCHANGED <<config, argv, locals, Py_FrozenFlag, Py_NoSiteFlag,
                   PyImport_FrozenModules, inittab, program_name, runtime,
                   sys_argv, sys_path, main_file, examined>>

\* Py_Finalize(); return 0;
Finalize ==
    /\ pc = "Finalize"
    /\ runtime' = "finalized"
    /\ Called("Py_Finalize")
    /\ ret' = 0
    /\ pc' = "done"
    /\ UNCHANGED <<config, argv, locals, Py_FrozenFlag, Py_NoSiteFlag,
                   PyImport_FrozenModules, inittab, program_name, sys_argv,
                   sys_path, main_file, main_rc, examined, stderr, signalled>>

\* py_error: PyErr_Print(); return 1;
PyError ==
    /\ pc = "py_error"
    /\ UNCHANGED signalled
    /\ stderr' = Append(stderr, [kind |-> "PyErr_Print", msg |-> "", idx |-> 0])
    /\ Called("PyErr_Print")
    /\ ret' = 1
    /\ pc' = "done"
    /\ UNCHANGED <<config, argv, locals, rtvars, examined>>

Next ==
    \/ Start
    \/ \E rc \in {0, -1} : AppendInittab(rc)
    \/ \E rc \in {0, -1} : ExtendInittab(rc)
    \/ \E ok \in BOOLEAN : MallocArgv(ok)
    \/ \E overwritten \in BOOLEAN : SaveLocale(overwritten)
    \/ \E ok \in BOOLEAN : ConvertArgLocale(ok)
    \/ \E ok \in BOOLEAN : ConvertArgAndroid(ok)
    \/ RestoreLocale
    \/ Argv0
    \/ SetProgramName
    \/ Initialize
    \/ \E zero \in BOOLEAN : SetArgv(zero)
    \/ \E rc \in ImportResults : ImportBootstrap(rc)
    \/ \E ok \in BOOLEAN : ListNew(ok)
    \/ \E failAt \in 0..Len(minimal_path) : AppendMinimal(failAt)
    \/ \E failAt \in 0..MaxPath : AppendPath(failAt)
    \/ \E rc \in {0, -1} : SetPath(rc)
    \/ \E ok \in BOOLEAN : AddModule(ok)
    \/ \E ok \in BOOLEAN : FromString(ok)
    \/ \E rc \in {0, -1} : SetFile(rc)
    \/ \E rc \in ImportResults : ImportMain(rc)
    \/ Finalize
    \/ PyError

Spec == Init /\ [][Next]_vars

TypeOK ==
    /\ pc \in {"start", "AppendInittab", "ExtendInittab", "MallocArgv", "SaveLocale",
               "ConvLoop", "RestoreLocale", "Argv0", "SetProgramName", "Initialize",
               "SetArgv", "ImportBootstrap", "ListNew", "AppendMinimal", "AppendPath",
               "SetPath", "AddModule", "FromString", "SetFile", "ImportMain",
               "Finalize", "py_error", "done"}
    /\ ret \in {-1, 0, 1}
    /\ i \in 0..argc
    /\ runtime \in {"uninitialized", "initialized", "finalized"}

\* ------------------------------------------------------------------ claims
Done == pc = "done"

Has(name) == \E k \in 1..Len(calls) : calls[k] = name

\* The position of the first call of `name' in the run (0: not called).
IndexOf(name) ==
    LET at == {k \in 1..Len(calls) : calls[k] = name}
    IN IF at = {} THEN 0 ELSE CHOOSE k \in at : \A j \in at : k <= j

ImportMainCall == "PyImport_ImportFrozenModule(__main__)"

\* C1: pyqtdeploy_start returns only 0 or 1; it returns 0 only on a run in
\* which no step reported failure and __main__ was imported, and every run in
\* which a step reported failure returns 1.
C1_ReturnContract ==
    Done => /\ ret \in {0, 1}
            /\ (ret = 0 => signalled = {} /\ main_rc = 1)
            /\ (signalled /= {} => ret = 1)

\* C2: the list installed as the search path is the three fixed fragments
\* followed by the caller's fragments in their order, none dropped,
\* deduplicated or reordered.
C2_SearchPath ==
    sys_path.set =>
        sys_path.items = <<":/", ":/stdlib", ":/site-packages">>
                            \o (IF path.null THEN <<>> ELSE path.items)

C2_Witness ==
    /\ sys_path.set
    /\ ~path.null
    /\ path.items = <<":/", ":/">>

\* The mapping of PEP 383 on a byte string: b below 0x80 unchanged, b from
\* 0x80 to 0xFF to 0xDC00 + b.
RECURSIVE Escaped(_)
Escaped(arg) ==
    IF arg = <<>> THEN <<>>
    ELSE <<IF Head(arg) < 128 THEN Head(arg) ELSE 56320 + Head(arg)>> \o Escaped(Tail(arg))

\* Its inverse: 0xDC00 + b to b for escaped units, identity otherwise.
RECURSIVE Unescaped(_)
Unescaped(w) ==
    IF w = <<>> THEN <<>>
    ELSE <<IF Head(w) \in 56448..56575 THEN Head(w) - 56320 ELSE Head(w)>> \o Unescaped(Tail(w))

\* The transcoding of a host argument in each variant.
Transcoding(arg) ==
    IF variant = "py2" THEN arg
    ELSE IF variant = "py3" THEN mbstowcs(arg, env_locale).w
    ELSE Escaped(arg)

\* C3: the argument vector registered with the runtime has argc entries,
\* entry 0 is py_main and entry k is the transcoding of argv[k].
C3_ArgvRegistered ==
    Has("PySys_SetArgv") =>
        /\ Len(sys_argv) = argc
        /\ sys_argv[1] = PyMain
        /\ \A k \in 1..(argc - 1) : sys_argv[k + 1] = Transcoding(argv[k])

\* C4: in the ANDROID variant every converted argument is the PEP 383
\* escape of its bytes, and the inverse mapping recovers the bytes.
C4_RoundTrip ==
    variant = "android" =>
        \A k \in 1..(argc - 1) :
            (k \in DOMAIN w_argv /\ w_argv[k].assigned) =>
                /\ w_argv[k].data = Escaped(argv[k])
                /\ Unescaped(w_argv[k].data) = argv[k]

\* C5: a return of 0 is preceded by the attempt to import __main__, made
\* after the search path was installed and __file__ was set.
C5_ImportAttempted ==
    ret = 0 =>
        /\ Has(ImportMainCall)
        /\ sys_path.set
        /\ main_file = PyMainFilename
        /\ 0 < IndexOf("PySys_SetObject")
        /\ IndexOf("PySys_SetObject") < IndexOf("PyDict_SetItemString")
        /\ IndexOf("PyDict_SetItemString") < IndexOf(ImportMainCall)

C5_Witness == Done /\ ret = 0

\* C6: when the import of __main__ ends `not found' or `error' the function
\* returns 1 with a diagnostic; it returns 0 only when it ends `imported'.
C6_ImportOutcome ==
    (Done /\ Has(ImportMainCall)) =>
        /\ (main_rc /= 1 => ret = 1 /\ Len(stderr) >= 1)
        /\ (ret = 0 => main_rc = 1)

\* C7: in the wide-character variants a failed allocation of the pointer
\* buffer or of the buffer of argument k makes the function return 1 with
\* no call of Py_SetProgramName, Py_Initialize or PySys_SetArgv, and no
\* argument after k is looked at.
AllocFailed ==
    signalled \cap {"PyMem_Malloc(w_argv)", "PyMem_Malloc(w_arg)"} /= {}

C7_AllocFailure ==
    (variant /= "py2" /\ AllocFailed) =>
        /\ Done
        /\ ret = 1
        /\ ~Has("Py_SetProgramName")
        /\ ~Has("Py_Initialize")
        /\ ~Has("PySys_SetArgv")
        /\ runtime = "uninitialized"
        /\ sys_argv = <<>>
        /\ \A k \in examined : k <= i
        /\ ("PyMem_Malloc(w_argv)" \in signalled => examined = {})

C7_Witness ==
    /\ variant /= "py2"
    /\ "PyMem_Malloc(w_arg)" \in signalled
    /\ i = 1
    /\ argc = 3

\* C8: a return of 1 is preceded by exactly one diagnostic, a return of 0
\* by none.
C8_OneDiagnostic ==
    Done => /\ (ret = 1 => Len(stderr) = 1)
            /\ (ret = 0 => Len(stderr) = 0)

C8_Witness == Done /\ ret = 1 /\ stderr[1].kind = "PyErr_Print"

\* C9: once the locale has been switched to the environment default it is
\* restored on every path that leaves the conversion phase.
C9_LocaleRestored ==
    (variant = "py3" /\ Has("setlocale(default)") /\ pc \notin {"ConvLoop", "RestoreLocale"})
        => Has("setlocale(saved_locale)")

\* C10: with no extension table, no path list, argc = 1 and every call
\* succeeding, the merge is skipped, the program name is py_main, the search
\* path is the three fixed fragments and the function returns 0 after
\* finalizing the runtime.
C10_MinimalRun ==
    (Done /\ extension_modules = "NULL" /\ path.null /\ argc = 1
          /\ signalled = {} /\ main_rc /= 0) =>
        /\ ret = 0
        /\ ~Has("PyImport_ExtendInittab")
        /\ inittab = <<"pyqtdeploy">>
        /\ program_name = PyMain
        /\ sys_path = [set |-> TRUE, items |-> <<":/", ":/stdlib", ":/site-packages">>]
        /\ runtime = "finalized"
        /\ calls[Len(calls)] = "Py_Finalize"
        /\ stderr = <<>>

C10_Witness ==
    /\ Done /\ extension_modules = "NULL" /\ path.null /\ argc = 1
    /\ signalled = {} /\ main_rc = 1 /\ ret = 0

\* C11: once a step has reported failure, nothing further is executed but
\* the diagnostic of the error exit: no later call is made and no state of
\* the function or of the runtime changes before the return.
C11_FailFast ==
    [][signalled /= {} =>
          /\ calls' = calls \/ calls' = Append(calls, "PyErr_Print")
          /\ UNCHANGED <<argv, locals, rtvars, examined>>
          /\ pc' = "done"
          /\ ret' = 1]_vars

C11_Witness ==
    /\ Done
    /\ "PySys_SetObject" \in signalled
    /\ calls[Len(calls)] = "PyErr_Print"

\* Before(a, b): both were called, a first.
Before(a, b) == 0 < IndexOf(a) /\ IndexOf(a) < IndexOf(b)

\* The calls of the start-up sequence, in the order the run made them.
IsStartupCall(c) ==
    c \in {"SetFlags", "SetFrozenModules", "PyImport_AppendInittab",
           "PyImport_ExtendInittab", "Py_SetProgramName", "Py_Initialize",
           "PySys_SetArgv"}

StartupCalls == SelectSeq(calls, IsStartupCall)

ExpectedStartup ==
    <<"SetFlags", "SetFrozenModules", "PyImport_AppendInittab">>
        \o (IF extension_modules = "NULL" THEN <<>> ELSE <<"PyImport_ExtendInittab">>)
        \o <<"Py_SetProgramName", "Py_Initialize">>

\* C12: a run that reaches Py_Initialize has, in this order, set the two
\* flags, installed the frozen table, registered the importer, merged the
\* extension table if one was given and set the program name to py_main;
\* the argument vector is registered only after Py_Initialize.
C12_InitOrder ==
    /\ runtime /= "uninitialized" =>
          /\ Py_FrozenFlag = 1
          /\ Py_NoSiteFlag = 1
          /\ PyImport_FrozenModules =
                <<IF variant = "py2" THEN "__bootstrap__" ELSE "_frozen_importlib", "__main__">>
          /\ inittab = <<"pyqtdeploy">>
                         \o (IF extension_modules = "NULL" THEN <<>>
                             ELSE <<"extension_modules">>)
          /\ program_name = <<47, 112>>
          /\ SubSeq(StartupCalls, 1, Len(ExpectedStartup)) = ExpectedStartup
    /\ sys_argv /= <<>> =>
          /\ runtime /= "uninitialized"
          /\ StartupCalls = Append(ExpectedStartup, "PySys_SetArgv")

C12_Witness ==
    /\ Has("PySys_SetArgv")
    /\ extension_modules = "table"
    /\ variant = "py3"

\* The steps between runtime start-up and the import of __main__.
PathAndFileSteps ==
    {"PyList_New", "append_strings(minimal_path)", "append_strings(path)",
     "PySys_SetObject", "PyImport_AddModule", "FromString", "PyDict_SetItemString"}

\* C13: when the import of __main__ is attempted the search path is already
\* the runtime's path and __file__ is already py_main_filename; a failure of
\* list creation, appending, installation, module resolution, filename
\* conversion or attribute assignment keeps the import from being attempted.
C13_ImportPreconditions ==
    /\ pc = "ImportMain" =>
          /\ sys_path.set
          /\ sys_path.items = py_path
          /\ main_file = "main.py"
          /\ Before("PyList_New", "PySys_SetObject")
          /\ Before("PySys_SetObject", "PyImport_AddModule")
          /\ Before("PyImport_AddModule", "PyDict_SetItemString")
    /\ Has(ImportMainCall) =>
          /\ sys_path.set
          /\ main_file = "main.py"
          /\ IndexOf(ImportMainCall) = IndexOf("PyDict_SetItemString") + 1
    /\ signalled \cap PathAndFileSteps /= {} => ~Has(ImportMainCall) /\ main_rc = -2

C13_Witness ==
    /\ Has(ImportMainCall)
    /\ ~path.null
    /\ Len(path.items) = 2

\* The calls made before Py_Initialize whose failure the function reports.
PreInitSteps ==
    {"PyImport_AppendInittab", "PyImport_ExtendInittab", "PyMem_Malloc(w_argv)",
     "PyMem_Malloc(w_arg)", "mbstowcs"}

\* The runtime calls made after Py_Initialize whose failure the function tests.
PostInitSteps == PathAndFileSteps \cup {"ImportBootstrap", "ImportMain"}

\* C14: PyErr_Print is called exactly when a runtime call made after
\* Py_Initialize reported failure, and is followed by return 1; a failure of
\* table registration or of argument conversion returns 1 with one fprintf
\* message and no PyErr_Print; PyErr_Print is never called while the runtime
\* is uninitialized.
C14_ErrorPrinter ==
    /\ Has("PyErr_Print") =>
          /\ Done /\ ret = 1
          /\ runtime = "initialized"
          /\ Before("Py_Initialize", "PyErr_Print")
          /\ signalled \cap PostInitSteps /= {}
          /\ stderr = <<[kind |-> "PyErr_Print", msg |-> "", idx |-> 0]>>
    /\ (Done /\ signalled \cap PostInitSteps /= {}) => Has("PyErr_Print") /\ ret = 1
    /\ signalled \cap PreInitSteps /= {} =>
          /\ Done /\ ret = 1
          /\ ~Has("PyErr_Print")
          /\ Len(stderr) = 1
          /\ stderr[1].kind = "fprintf"
          /\ runtime = "uninitialized"
    /\ signalled \subseteq PreInitSteps \cup PostInitSteps

C14_Witness ==
    /\ Has("PyErr_Print")
    /\ "PyImport_AddModule" \in signalled

WideArgs == {k \in 1..(argc - 1) : k \in DOMAIN w_argv /\ w_argv[k].assigned}

\* C15: in the wide-character variants every argument string 1..argc-1
\* handed to PySys_SetArgv fills a buffer of len + 1 units: len converted
\* units followed by the terminator, written before the call.
C15_Terminated ==
    (variant /= "py2" /\ Has("PySys_SetArgv")) =>
        \A k \in 1..(argc - 1) :
            /\ w_argv[k].assigned
            /\ Len(w_argv[k].data) = w_argv[k].size
            /\ w_argv[k].data[w_argv[k].size] = 0
            /\ \A j \in 1..(w_argv[k].size - 1) : w_argv[k].data[j] /= 0

\* C16: in the locale-aware variant the locale in effect at Py_Initialize
\* is the locale in effect when the function was entered.
C16_LocalePreserved ==
    (variant = "py3" /\ Has("Py_Initialize")) => locale = entry_locale

\* The first argument the locale-aware conversion rejects (0: none).
FirstBad ==
    LET bad == {k \in 1..(argc - 1) : ~mbstowcs(argv[k], env_locale).ok}
    IN IF bad = {} THEN 0 ELSE CHOOSE k \in bad : \A j \in bad : k <= j

\* C17: in the locale-aware variant a failed length determination or
\* conversion of argument k returns 1 with the message carrying k; the
\* arguments before k have been converted, none after k has been looked at,
\* and the runtime is not initialized.
C17_ConversionFailure ==
    (variant = "py3" /\ "mbstowcs" \in signalled) =>
        /\ Done /\ ret = 1
        /\ FirstBad >= 1
        /\ stderr = <<[kind |-> "fprintf",
                       msg |-> "Could not convert argument %d to string",
                       idx |-> FirstBad]>>
        /\ examined = 1..FirstBad
        /\ \A k \in 1..(FirstBad - 1) :
              /\ w_argv[k].assigned
              /\ w_argv[k].data = mbstowcs(argv[k], env_locale).w \o <<0>>
        /\ \A k \in (FirstBad + 1)..(argc - 1) : ~w_argv[k].assigned
        /\ runtime = "uninitialized"
        /\ ~Has("Py_SetProgramName") /\ ~Has("Py_Initialize") /\ ~Has("PySys_SetArgv")

C17_Witness ==
    /\ variant = "py3"
    /\ "mbstowcs" \in signalled
    /\ argc = 3
    /\ stderr[1].idx = 2

BootstrapCall == "PyImport_ImportFrozenModule(BOOTSTRAP_MODULE)"

\* C18: the byte-based variant imports the bootstrap module after
\* Py_Initialize and PySys_SetArgv and before the path list is created; an
\* error of that import goes to PyErr_Print and return 1 with no path list
\* created or installed; the wide-character variants make no such import.
C18_BootstrapImport ==
    /\ variant /= "py2" => ~Has(BootstrapCall)
    /\ Has(BootstrapCall) =>
          /\ Before("Py_Initialize", "PySys_SetArgv")
          /\ Before("PySys_SetArgv", BootstrapCall)
    /\ (variant = "py2" /\ Has("PyList_New")) => Before(BootstrapCall, "PyList_New")
    /\ "ImportBootstrap" \in signalled =>
          /\ ~Has("PyList_New")
          /\ ~sys_path.set
          /\ py_path = <<>>
          /\ Done => (ret = 1 /\ calls[Len(calls)] = "PyErr_Print")

C18_Witness ==
    /\ Done
    /\ "ImportBootstrap" \in signalled

Count(name) == Cardinality({k \in 1..Len(calls) : calls[k] = name})

\* C19: Py_Finalize is called once, on the path returning 0, after the
\* import of __main__ succeeded and right before the return; it is never
\* called on a path returning 1, so a failure after Py_Initialize leaves
\* the runtime initialized.
C19_FinalizeOnce ==
    /\ Count("Py_Finalize") <= 1
    /\ Has("Py_Finalize") =>
          /\ main_rc = 1
          /\ Before(ImportMainCall, "Py_Finalize")
          /\ calls[Len(calls)] = "Py_Finalize"
          /\ Done /\ ret = 0
    /\ (Done /\ ret = 0) => Has("Py_Finalize")
    /\ (Done /\ ret = 1) => ~Has("Py_Finalize")
    /\ (Done /\ ret = 1 /\ Has("Py_Initialize")) => runtime = "initialized"

\* C20: in the wide-character variants the pointer buffer has argc entries
\* and is written at indices 0..argc-1 only, every argument buffer has
\* len + 1 units and is written at indices 0..len only, and every entry of
\* the pointer buffer is assigned when it is handed to the runtime.
C20_WritesInBounds ==
    (variant /= "py2" /\ DOMAIN w_argv /= {}) =>
        /\ DOMAIN w_argv = 0..(argc - 1)
        /\ w_argv[0].assigned
        /\ pc = "ConvLoop" => (1 <= i /\ i <= argc - 1)
        /\ \A k \in WideArgs :
              /\ k < i
              /\ Len(w_argv[k].data) <= w_argv[k].size
              /\ w_argv[k].size =
                    1 + (IF variant = "android" THEN Len(argv[k])
                         ELSE Len(mbstowcs(argv[k], env_locale).w))
        /\ Has("PySys_SetArgv") => \A k \in 0..(argc - 1) : w_argv[k].assigned

C20_Witness ==
    /\ variant /= "py2"
    /\ Has("PySys_SetArgv")
    /\ argc = 3
    /\ w_argv[2].size = 3

====
